---- MODULE Spec2Model ----
(***************************************************************************)
(* binance-async-api: the typed stream decoder and the connect functions  *)
(* (src/websocket/mod.rs, src/ws_api/mod.rs) and the REST dispatch         *)
(* pipeline (src/rest/mod.rs) as state machines.                           *)
(*                                                                         *)
(* Strings are sequences of tokens, so that concatenation, prefixes and    *)
(* suffixes are computed and "byte-identical" is sequence equality.  JSON  *)
(* texts are records that say whether the text is JSON at all, whether it  *)
(* is a JSON object, and which fields the object carries; serde's derived  *)
(* Deserialize accepts an object exactly when all required fields of the   *)
(* target type are present (unknown fields are ignored).                   *)
(***************************************************************************)
EXTENDS Integers, Sequences, FiniteSets, TLC

VARIABLES
    \* ---- stream side (websocket/mod.rs), one entry per handle ----
    conn,       \* "unconnected" | "open" | "rejected" | "ws_api"
    upgrades,   \* connect_async calls made for the handle: url and outcome
    connret,    \* the connect call made for the handle and what it returned
    arrived,    \* every item the socket received, in order of arrival
    nread,      \* how many of them the WSStream has consumed
    tstate,     \* tungstenite connection state: "Active" | "ClosedByPeer"
    ended,      \* tokio-tungstenite's fused flag of the WSStream
    task,       \* the caller's task: "idle" | "runnable" | "parked"
    wakerReg,   \* the socket holds the task's waker (last poll was Pending)
    yielded,    \* what the pulls on the handle returned so far, in order
    script,     \* frames the peer is still going to send in a fixed scenario
    proc,       \* the process: "running" | "panicked"
    \* ---- REST side (rest/mod.rs) ----
    pc,         \* "idle" | "sending" | "done"
    call,       \* the dispatch call in progress
    wire,       \* HTTP requests handed to the transport, in order
    result,     \* what the last finished call returned
    \* ---- WS API side (ws_api/mod.rs) ----
    wspc,       \* "idle" | "built" | "sent" | "answered" | "done"
    wsreq,      \* the build call made and the message it produced
    wssent,     \* messages handed to the WS API socket, in order
    wsresp,     \* the text message the server answered with
    wsevent,    \* what the pull on the WS API handle returned
    \* ---- errors (errors.rs and the BinanceError impls) ----
    error,      \* an error value of the library
    verdict     \* what is_server_error answered for it: "none" | TRUE | FALSE

streamVars == <<conn, upgrades, connret, arrived, nread, tstate, ended, task, wakerReg, yielded, script>>
restVars   == <<pc, call, wire, result>>
wsVars     == <<wspc, wsreq, wssent, wsresp, wsevent>>
errVars    == <<error, verdict>>
auxVars    == <<wsVars, errVars>>
vars       == <<streamVars, proc, restVars, auxVars>>

\* ------------------------------------------------------------------ bounds
MaxFrames        == 3   \* items the peer sends on one socket outside the fixture
MaxEventId       == 2   \* distinct valid events
MaxPullsAfterEnd == 1   \* pulls the caller still makes after an end-of-stream

Handles       == {"h1", "h2"}
StreamHandles == {"h1"}

\* ------------------------------------------------------------ JSON texts
\* Required fields of AggTradeEvent.
AggTradeFields == {"E", "s", "a", "p", "q", "f", "l", "T", "m"}

NoPayload == [json |-> FALSE, object |-> FALSE, fields |-> {}, a |-> 0]

\* A well-formed aggTrade message with aggregate trade id n.
ValidText(n) ==
    [json |-> TRUE, object |-> TRUE, fields |-> AggTradeFields \cup {"e"}, a |-> n]

\* A JSON object that lacks the event's fields, a JSON array, and non-JSON text.
MissingFieldText == [json |-> TRUE, object |-> TRUE, fields |-> {"e"}, a |-> 0]
NonObjectJson    == [json |-> TRUE, object |-> FALSE, fields |-> {}, a |-> 0]
NotJson          == [json |-> FALSE, object |-> FALSE, fields |-> {}, a |-> 0]

TextPayloads ==
    {ValidText(n) : n \in 1..MaxEventId} \cup {MissingFieldText, NonObjectJson, NotJson}

\* serde_json::from_str::<AggTradeEvent>
from_str_event(text) ==
    IF text.json /\ text.object /\ AggTradeFields \subseteq text.fields
    THEN [ok |-> TRUE, event |-> [id |-> text.a]]
    ELSE [ok |-> FALSE, event |-> [id |-> 0]]

\* ---------------------------------------------------------------- frames
Msg(k, p) == [kind |-> k, payload |-> p]

ControlKinds == {"Binary", "Frame", "Pong", "Ping"}

Messages ==
    {Msg("Text", p) : p \in TextPayloads}
        \cup {Msg(k, NoPayload) : k \in ControlKinds}
        \cup {Msg("Close", NoPayload)}

\* What a socket can receive: messages, the end of the TCP stream, an I/O error.
Eof   == Msg("Eof", NoPayload)
IoErr == Msg("IoErr", NoPayload)
Items == Messages \cup {Eof, IoErr}

\* The frame sequence of the frame-filtering fixture.
FrameFilteringFixture ==
    << Msg("Ping", NoPayload), Msg("Text", ValidText(1)), Msg("Pong", NoPayload),
       Msg("Text", ValidText(2)), Msg("Close", NoPayload) >>

Scenarios == {<<>>, FrameFilteringFixture}

\* What the peers of two sockets send when two handles are open at once:
\* events, control frames, a Close, a frame after the Close, the end of the
\* TCP stream, an I/O error.
TwoStreamScenarios ==
    { << Msg("Text", ValidText(1)), Msg("Close", NoPayload), Msg("Text", ValidText(2)) >>,
      << Msg("Ping", NoPayload), Msg("Text", ValidText(2)), IoErr >>,
      << Msg("Text", ValidText(1)), Msg("Text", ValidText(2)), Eof >>,
      << Msg("Close", NoPayload), Eof >> }

\* --------------------------------------------------------------- results
Some(ev) == [tag |-> "Some", id |-> ev.id]
None     == [tag |-> "None", id |-> 0]

NoneCount(h) == Cardinality({i \in 1..Len(yielded[h]) : yielded[h][i].tag = "None"})

\* -------------------------------------------------------------- WSStream
\* self.stream.poll_next_unpin(cx): the next item of the socket as the
\* WSStream reports it.  A frame that follows the peer's Close is a protocol
\* error; any error fuses the stream, and ConnectionClosed is reported as the
\* end of the stream.
stream_poll_next(h) ==
    LET base == [poll |-> "Pending", msg |-> Msg("Ping", NoPayload),
                 nread |-> nread[h], tstate |-> tstate[h], ended |-> ended[h]]
    IN  IF ended[h] THEN [base EXCEPT !.poll = "ReadyNone"]
        ELSE IF nread[h] = Len(arrived[h]) THEN base
        ELSE LET it == arrived[h][nread[h] + 1]
                 took == [base EXCEPT !.nread = nread[h] + 1]
             IN  CASE it.kind = "IoErr" ->
                        [took EXCEPT !.poll = "ReadyErr", !.ended = TRUE]
                   [] it.kind = "Eof" ->
                        [took EXCEPT !.poll = IF tstate[h] = "ClosedByPeer"
                                               THEN "ReadyNone" ELSE "ReadyErr",
                                     !.ended = TRUE]
                   [] OTHER ->
                        IF tstate[h] = "ClosedByPeer"
                        THEN [took EXCEPT !.poll = "ReadyErr", !.ended = TRUE]
                        ELSE [took EXCEPT !.poll = "ReadyOk", !.msg = it,
                                          !.tstate = IF it.kind = "Close"
                                                     THEN "ClosedByPeer" ELSE "Active"]

\* ------------------------------------------------- BinanceWebsocket::poll_next
\* The body of poll_next after the socket answered r.  BinanceWsApi::poll_next
\* (ws_api/mod.rs) is the same code over WsApiEvent<R>.
Ret(r, e, w) == [ret |-> r, event |-> e, wake |-> w]

\* Mutants of poll_next_result: a control frame ends the sequence; a socket
\* that is not ready is reported as the end of the stream; a control frame
\* is skipped without waking the task.
poll_next_control_ends(r) ==
    CASE r.poll = "Pending" -> Ret("Pending", None, FALSE)
      [] r.poll \in {"ReadyErr", "ReadyNone"} -> Ret("ReadyNone", None, FALSE)
      [] OTHER ->
            CASE r.msg.kind = "Text" ->
                    LET d == from_str_event(r.msg.payload)
                    IN  IF d.ok THEN Ret("ReadySome", Some(d.event), FALSE)
                        ELSE Ret("Panic", None, FALSE)
              [] OTHER -> Ret("ReadyNone", None, FALSE)

poll_next_pending_ends(r) ==
    CASE r.poll \in {"Pending", "ReadyErr", "ReadyNone"} -> Ret("ReadyNone", None, FALSE)
      [] OTHER ->
            CASE r.msg.kind = "Text" ->
                    LET d == from_str_event(r.msg.payload)
                    IN  IF d.ok THEN Ret("ReadySome", Some(d.event), FALSE)
                        ELSE Ret("Panic", None, FALSE)
              [] r.msg.kind \in ControlKinds -> Ret("Pending", None, TRUE)
              [] OTHER -> Ret("ReadyNone", None, FALSE)

poll_next_no_wake(r) ==
    CASE r.poll = "Pending" -> Ret("Pending", None, FALSE)
      [] r.poll \in {"ReadyErr", "ReadyNone"} -> Ret("ReadyNone", None, FALSE)
      [] OTHER ->
            CASE r.msg.kind = "Text" ->
                    LET d == from_str_event(r.msg.payload)
                    IN  IF d.ok THEN Ret("ReadySome", Some(d.event), FALSE)
                        ELSE Ret("Panic", None, FALSE)
              [] r.msg.kind \in ControlKinds -> Ret("Pending", None, FALSE)
              [] OTHER -> Ret("ReadyNone", None, FALSE)

\* Mutant of poll_next_result: the handles share one closed flag.
poll_next_shared_close(r) ==
    CASE r.poll = "Pending" -> Ret("Pending", None, FALSE)
      [] r.poll \in {"ReadyErr", "ReadyNone"} -> Ret("ReadyNone", None, FALSE)
      [] \E g \in Handles : ended[g] \/ tstate[g] = "ClosedByPeer" ->
            Ret("ReadyNone", None, FALSE)
      [] OTHER ->
            CASE r.msg.kind = "Text" ->
                    LET d == from_str_event(r.msg.payload)
                    IN  IF d.ok THEN Ret("ReadySome", Some(d.event), FALSE)
                        ELSE Ret("Panic", None, FALSE)
              [] r.msg.kind \in ControlKinds -> Ret("Pending", None, TRUE)
              [] OTHER -> Ret("ReadyNone", None, FALSE)

poll_next_result(r) ==
    CASE r.poll = "Pending" -> Ret("Pending", None, FALSE)
      [] r.poll \in {"ReadyErr", "ReadyNone"} -> Ret("ReadyNone", None, FALSE)
      [] OTHER ->
            CASE r.msg.kind = "Text" ->
                    LET d == from_str_event(r.msg.payload)
                    IN  IF d.ok THEN Ret("ReadySome", Some(d.event), FALSE)
                        ELSE Ret("Panic", None, FALSE)
              [] r.msg.kind \in ControlKinds -> Ret("Pending", None, TRUE)
              [] OTHER -> Ret("ReadyNone", None, FALSE)

\* =================================================================== REST
\* ------------------------------------------------------- strings as tokens
Lit(s) == [lit |-> s, key |-> <<>>, msg |-> <<>>]

\* hex(HMAC-SHA256(secret, params)): one token that is determined by the key
\* and the message, and by nothing else.
signature(params, secret) == [lit |-> "hmac-sha256", key |-> secret, msg |-> params]

\* The percent-encoding serde_qs applies to a value.
qs_encode(v) ==
    CASE v = "BTC/USDT" -> "BTC%2FUSDT"
      [] OTHER          -> v

\* ------------------------------------------------------------- requests
Field(k, v)  == [key |-> k, some |-> TRUE, val |-> v]
Absent(k)    == [key |-> k, some |-> FALSE, val |-> ""]

Symbols == {"BTCUSDT", "BTC/USDT"}

OrderBookResponseFields     == {"lastUpdateId", "E", "T", "bids", "asks"}
PriceTickerResponseFields   == {"symbol", "price", "time"}
CreateListenKeyResponseFields == {"listenKey"}
CloseListenKeyResponseFields  == {}

OrderBookRequest(symbol, limit) ==
    [name |-> "OrderBookRequest", method |-> "GET", endpoint |-> "/fapi/v1/depth",
     fields |-> <<Field("symbol", symbol), limit>>,
     response |-> OrderBookResponseFields]

PriceTickerRequest(symbol) ==
    [name |-> "PriceTickerRequest", method |-> "GET", endpoint |-> "/fapi/v1/ticker/price",
     fields |-> <<Field("symbol", symbol)>>,
     response |-> PriceTickerResponseFields]

CreateListenKeyRequest ==
    [name |-> "CreateListenKeyRequest", method |-> "POST", endpoint |-> "/fapi/v1/listenKey",
     fields |-> <<>>, response |-> CreateListenKeyResponseFields]

CloseListenKeyRequest ==
    [name |-> "CloseListenKeyRequest", method |-> "DELETE", endpoint |-> "/fapi/v1/listenKey",
     fields |-> <<>>, response |-> CloseListenKeyResponseFields]

\* A caller's implementor of KeyedRequest<Usdm> with METHOD = POST and one
\* serialized field.
KeyedPostRequest(symbol) ==
    [name |-> "KeyedPostRequest", method |-> "POST", endpoint |-> "/fapi/v1/listenKey",
     fields |-> <<Field("symbol", symbol)>>, response |-> CreateListenKeyResponseFields]

\* The types that implement PublicRequest<Usdm> and KeyedRequest<Usdm>.
PublicRequests ==
    {OrderBookRequest(s, l) : s \in Symbols, l \in {Absent("limit"), Field("limit", "5")}}
        \cup {PriceTickerRequest(s) : s \in Symbols}
KeyedRequests ==
    {CreateListenKeyRequest, CloseListenKeyRequest, KeyedPostRequest("BTCUSDT")}

NoReq == [name |-> "none", method |-> "GET", endpoint |-> "", fields |-> <<>>, response |-> {}]

\* serde_qs::to_string: key=value of every field that is serialized, joined by &.
RECURSIVE qs_pairs(_)
qs_pairs(fs) ==
    IF fs = <<>> THEN <<>>
    ELSE LET f == Head(fs)
             rest == qs_pairs(Tail(fs))
         IN  IF ~f.some THEN rest
             ELSE <<Lit(f.key), Lit("="), Lit(qs_encode(f.val))>>
                      \o (IF rest = <<>> THEN <<>> ELSE <<Lit("&")>> \o rest)

to_string(req) == qs_pairs(req.fields)

\* ----------------------------------------------------------- credentials
ApiKeys    == {<<"k", "1">>, <<>>, <<"k", "\n">>}
ApiSecrets == {<<"s", "1">>, <<>>}

\* HeaderValue::from_str: every byte must be visible ASCII (or a tab).
HeaderValue_from_str(s) == \A i \in 1..Len(s) : s[i] # "\n"

Header(n, v) == [name |-> n, value |-> v]
UserAgent == Header("user-agent", <<"binance-async-api">>)

\* Headers of request(): the user agent alone.
public_headers == {UserAgent}

\* Mutant of keyed_headers: the key header is left out.
keyed_headers_no_key(api_key) == {UserAgent}

\* Headers of keyed_request() and signed_request().
keyed_headers(api_key) == {UserAgent, Header("x-mbx-apikey", api_key)}

\* ------------------------------------------------------------------ URLs
rest_base_url == "https://fapi.binance.com"

\* format!("{base}{endpoint}?{params}")
format_url(base, endpoint, params) == <<Lit(base), Lit(endpoint), Lit("?")>> \o params

\* Mutant of signed_params: a parameter is appended after the signature was
\* computed.
signed_params_append_after_signing(req, api_secret) ==
    LET params == to_string(req)
        sig    == signature(params, api_secret)
        more   == (IF params = <<>> THEN <<>> ELSE <<Lit("&")>>)
                      \o <<Lit("recvWindow"), Lit("="), Lit("5000")>>
    IN  params \o more \o <<Lit("&signature="), sig>>

\* Mutant of signed_params: the signature is the first parameter.
signed_params_signature_first(req, api_secret) ==
    LET params == to_string(req)
        sig    == signature(params, api_secret)
    IN  <<Lit("signature="), sig, Lit("&")>> \o params

\* signed_request: the parameter string with the signature pushed onto it.
signed_params(req, api_secret) ==
    LET params == to_string(req)
        sig    == signature(params, api_secret)
    IN  params \o <<Lit("&signature="), sig>>

\* The query string of a URL: what follows the first "?".
QueryOf(url) ==
    LET q == CHOOSE i \in 1..Len(url) :
                 url[i] = Lit("?") /\ \A j \in 1..(i - 1) : url[j] # Lit("?")
    IN  SubSeq(url, q + 1, Len(url))

\* Mutant of Http: a request that is not a GET carries the parameters in
\* its body.
Http_body_when_not_get(tier, req, url, headers) ==
    IF req.method = "GET"
    THEN [tier |-> tier, method |-> req.method, url |-> url, headers |-> headers,
          body |-> <<>>]
    ELSE [tier |-> tier, method |-> req.method,
          url |-> SubSeq(url, 1, Len(url) - Len(QueryOf(url))),
          headers |-> headers, body |-> QueryOf(url)]

\* self.client.request(R::METHOD, url).headers(headers): no body is set.
Http(tier, req, url, headers) ==
    [tier |-> tier, method |-> req.method, url |-> url, headers |-> headers, body |-> <<>>]

\* Mutant of send: the request is sent again.
send_and_retry(http) == <<http, http>>

\* .send().await: the request is handed to the transport once.
send(http) == <<http>>

\* ------------------------------------------------------------- responses
StatusCodes == {200, 400, 429, 503}
is_success(status) == status >= 200 /\ status <= 299

ErrorEnvelopeFields == {"code", "msg"}

Body(rd, js, ob, fs) == [readable |-> rd, json |-> js, object |-> ob, fields |-> fs]
ObjectBody(fs) == Body(TRUE, TRUE, TRUE, fs)
NoBody == Body(FALSE, FALSE, FALSE, {})

Bodies ==
    {ObjectBody(fs) : fs \in {OrderBookResponseFields, PriceTickerResponseFields,
                              CreateListenKeyResponseFields, ErrorEnvelopeFields, {"foo"}}}
        \cup {Body(TRUE, TRUE, FALSE, {}), Body(TRUE, FALSE, FALSE, {}), NoBody}

RespHeaderSets == {{}, {"retry-after"}}

NoResp == [status |-> 0, headers |-> {}, body |-> NoBody]

\* serde_json::from_str::<T> for a struct T with the required fields.
from_str(required, text) == text.json /\ text.object /\ required \subseteq text.fields

Result(k, st, hd, c) == [kind |-> k, status |-> st, headers |-> hd, content |-> c]
NoResult == Result("none", 0, {}, {})

\* Mutant of handle_response: the success value does not carry the
\* response's headers.
handle_response_drops_headers(expected, resp) ==
    IF is_success(resp.status)
    THEN IF ~resp.body.readable THEN Result("Panic", 0, {}, {})
         ELSE IF from_str(expected, resp.body)
              THEN Result("Ok", resp.status, {}, expected)
              ELSE Result("Panic", 0, {}, {})
    ELSE IF resp.body.readable
         THEN IF from_str(ErrorEnvelopeFields, resp.body)
              THEN Result("BinanceResponse", resp.status, resp.headers, ErrorEnvelopeFields)
              ELSE Result("Panic", 0, {}, {})
         ELSE Result("BinanceResponse", resp.status, resp.headers, {})

\* handle_response::<O>, O the struct with the fields `expected`.
handle_response(expected, resp) ==
    IF is_success(resp.status)
    THEN IF ~resp.body.readable THEN Result("Panic", 0, {}, {})
         ELSE IF from_str(expected, resp.body)
              THEN Result("Ok", resp.status, resp.headers, expected)
              ELSE Result("Panic", 0, {}, {})
    ELSE IF resp.body.readable
         THEN IF from_str(ErrorEnvelopeFields, resp.body)
              THEN Result("BinanceResponse", resp.status, resp.headers, ErrorEnvelopeFields)
              ELSE Result("Panic", 0, {}, {})
         ELSE Result("BinanceResponse", resp.status, resp.headers, {})

\* ============================================================== connecting
websocket_base_url == "wss://fstream.binance.com"

\* ws_api_base_url of ClientConfig<Usdm>::default and ClientConfig<Coinm>::default.
WsApiBaseUrls == {"wss://ws-fapi.binance.com/ws-fapi/v1", ""}

\* str::to_lowercase on the symbols in use.
to_lowercase(s) ==
    CASE s = "BTCUSDT" -> "btcusdt"
      [] OTHER         -> s

AggTradeStream(symbol) == [name |-> "AggTradeStream", arg |-> symbol]
UserStream(listen_key) == [name |-> "UserStream", arg |-> listen_key]
NoTopic                == [name |-> "none", arg |-> ""]

Topics == {AggTradeStream("BTCUSDT"), AggTradeStream("btcusdt"), UserStream("pqia91ma19a5s61cv6a8")}

\* StreamTopic::endpoint
endpoint(topic) ==
    CASE topic.name = "AggTradeStream" ->
            <<Lit("/ws/"), Lit(to_lowercase(topic.arg)), Lit("@aggTrade")>>
      [] topic.name = "UserStream" -> <<Lit("/ws/"), Lit(topic.arg)>>
      [] OTHER -> <<>>

\* Mutant of stream_url: the base URL is left out.
stream_url_no_base(base, ep) == ep

\* format!("{}{}", base, endpoint)
stream_url(base, ep) == <<Lit(base)>> \o ep

\* The URL parses: it is not empty.
url_ok(url) == \E i \in 1..Len(url) : url[i].lit # ""

\* The HTTP response that refuses an upgrade; its body is Option<Vec<u8>>.
HttpBody(sm, bs) == [some |-> sm, bytes |-> bs]
HttpBodies ==
    {HttpBody(FALSE, <<>>), HttpBody(TRUE, <<"{", "}">>), HttpBody(TRUE, <<"{", "0xFF">>)}
HttpResponse(st, hd, b) == [status |-> st, headers |-> hd, body |-> b]
NoHttp == HttpResponse(0, {}, HttpBody(FALSE, <<>>))
RefusalStatuses == {400, 429}

\* What connect_async returns: the socket, Error::Http with the response, or
\* another tungstenite::Error (Io for DNS and TCP failures, Tls, Url).
Connected(k, resp) == [kind |-> k, resp |-> resp]
Refusals ==
    {Connected("Http", HttpResponse(st, hd, b)) :
        st \in RefusalStatuses, hd \in {{}, {"retry-after"}}, b \in HttpBodies}
connect_async(url) ==
    IF url_ok(url)
    THEN {Connected("Ok", NoHttp), Connected("Io", NoHttp), Connected("Tls", NoHttp)}
             \cup Refusals
    ELSE {Connected("Url", NoHttp)}

\* The outcomes used where the frames of the stream are explored.
StreamConnectOutcomes ==
    {Connected("Ok", NoHttp), Connected("Io", NoHttp),
     Connected("Http", HttpResponse(429, {"retry-after"}, HttpBody(TRUE, <<"{", "}">>)))}

\* http.body().as_deref().unwrap_or_default()
unwrap_or_default(body) == IF body.some THEN body.bytes ELSE <<>>

\* String::from_utf8_lossy: a byte that is not UTF-8 becomes U+FFFD.
from_utf8_lossy(bytes) ==
    [i \in 1..Len(bytes) |-> IF bytes[i] = "0xFF" THEN "U+FFFD" ELSE bytes[i]]

ConnectReturn(k, st, hd, b) == [kind |-> k, status |-> st, headers |-> hd, body |-> b]
NoConnectReturn == ConnectReturn("none", 0, {}, <<>>)

\* Mutant of connect_return: the refusing response's status and body are
\* not copied into the error.
connect_return_blank_error(r) ==
    CASE r.kind = "Ok"   -> ConnectReturn("Handle", 0, {}, <<>>)
      [] r.kind = "Http" -> ConnectReturn("StartError", 0, r.resp.headers, <<>>)
      [] OTHER           -> ConnectReturn("Panic", 0, {}, <<>>)

\* The match on connect_async's result in connect_stream and connect_ws_api:
\* Ok(handle), Err(StartWebsocketError / StartWsApiError), or a panic.
connect_return(r) ==
    CASE r.kind = "Ok"   -> ConnectReturn("Handle", 0, {}, <<>>)
      [] r.kind = "Http" ->
            ConnectReturn("StartError", r.resp.status, r.resp.headers,
                          from_utf8_lossy(unwrap_or_default(r.resp.body)))
      [] OTHER           -> ConnectReturn("Panic", 0, {}, <<>>)

ConnectCall(f, base, topic, ret) == [fn |-> f, base |-> base, topic |-> topic, ret |-> ret]
NoConnectCall == ConnectCall("none", "", NoTopic, NoConnectReturn)

\* The call connects: connect_async(url) once, then the match on its result.
Connect(h, f, base, topic, url, r, opened) ==
    LET ret == connect_return(r)
    IN  /\ upgrades' = [upgrades EXCEPT ![h] = Append(@, [url |-> url, result |-> r])]
        /\ connret' = [connret EXCEPT ![h] = ConnectCall(f, base, topic, ret)]
        /\ conn' = [conn EXCEPT ![h] =
                       CASE ret.kind = "Handle"     -> opened
                         [] ret.kind = "StartError" -> "rejected"
                         [] OTHER                   -> @]
        /\ proc' = IF ret.kind = "Panic" THEN "panicked" ELSE proc

\* ================================================================= WS API
\* ------------------------------------------------------------- requests
BookTickerRequest(symbol) ==
    [name |-> "BookTickerRequest", method |-> "GET", endpoint |-> "/fapi/v1/ticker/bookTicker",
     fields |-> <<Field("symbol", symbol)>>,
     response |-> {"symbol", "bidPrice", "bidQty", "askPrice", "askQty", "time"}]

\* Required fields of the response types WsApiResult is made of (BookTicker
\* is the WS API's own BookTickerResponse).
WsBookTickerResponseFields ==
    {"lastUpdateId", "symbol", "bidPrice", "bidQty", "askPrice", "askQty", "time"}
CancelOrderResponseFields ==
    {"clientOrderId", "cumQty", "cumQuote", "executedQty", "orderId", "origQty",
     "origType", "price", "reduceOnly", "side", "positionSide", "status", "stopPrice",
     "closePosition", "symbol", "timeInForce", "type", "updateTime", "workingType",
     "priceProtect", "selfTradePreventionMode", "goodTillDate"}
NewOrderResponseFields == CancelOrderResponseFields \cup {"avgPrice"}

\* NewOrderRequest and CancelOrderRequest with the fields in use, in the
\* order the structs declare them.
NewOrderRequest(side, recv_window, timestamp) ==
    [name |-> "NewOrderRequest", method |-> "POST", endpoint |-> "/fapi/v1/order",
     fields |-> <<Field("symbol", "BTCUSDT"), Field("side", side), Field("type", "MARKET"),
                  recv_window, Field("timestamp", timestamp)>>,
     response |-> NewOrderResponseFields]

CancelOrderRequest(order_id, recv_window, timestamp) ==
    [name |-> "CancelOrderRequest", method |-> "DELETE", endpoint |-> "/fapi/v1/order",
     fields |-> <<Field("symbol", "BTCUSDT"), order_id, recv_window,
                  Field("timestamp", timestamp)>>,
     response |-> CancelOrderResponseFields]

\* A caller's implementor of WsApiKeyedRequest: no field of its own.
UserDataStreamStartRequest ==
    [name |-> "UserDataStreamStartRequest", method |-> "POST", endpoint |-> "",
     fields |-> <<>>, response |-> CreateListenKeyResponseFields]

WsApiPublicRequests ==
    {OrderBookRequest("BTCUSDT", l) : l \in {Absent("limit"), Field("limit", "5")}}
        \cup {PriceTickerRequest("BTCUSDT"), BookTickerRequest("BTCUSDT")}
WsApiSignedRequests ==
    {NewOrderRequest(sd, rw, "1700000000000") :
        sd \in {"BUY", "SELL"}, rw \in {Absent("recvWindow"), Field("recvWindow", "6000")}}
      \cup {CancelOrderRequest(oid, rw, "1700000000000") :
        oid \in {Absent("orderId"), Field("orderId", "42")},
        rw \in {Absent("recvWindow"), Field("recvWindow", "6000")}}

WsIds     == {0, 7}
WsApiKeys == {<<"k", "1">>, <<"k", "2">>}

\* fn method(&self)
ws_method(req) ==
    CASE req.name = "OrderBookRequest"   -> "depth"
      [] req.name = "PriceTickerRequest" -> "ticker.price"
      [] req.name = "BookTickerRequest"  -> "ticker.book"
      [] req.name = "NewOrderRequest"    -> "order.place"
      [] req.name = "CancelOrderRequest" -> "order.cancel"
      [] OTHER                           -> "userDataStream.start"

\* ---------------------------------------------------------- serialization
\* The (field, value) pairs serde serializes for the request, in the order
\* the struct declares them.
serialized(req) == SelectSeq(req.fields, LAMBDA f : f.some)

\* The keys in use, in ascending byte order.
KeyRank(k) ==
    LET KeyOrder ==
            <<"apiKey", "api_key", "limit", "orderId", "price", "recvWindow", "side",
              "signature", "symbol", "timestamp", "type">>
    IN  CHOOSE i \in 1..Len(KeyOrder) : KeyOrder[i] = k

\* Mutant of sort_keys: the pairs stay in the order they were serialized in.
sort_keys_unsorted(pairs) == pairs

\* serde_json::to_value(req) as an object, then map.sort_keys().
RECURSIVE sort_keys(_)
sort_keys(pairs) ==
    IF pairs = <<>> THEN <<>>
    ELSE LET m == CHOOSE i \in 1..Len(pairs) :
                      \A j \in 1..Len(pairs) : KeyRank(pairs[i].key) <= KeyRank(pairs[j].key)
         IN  <<pairs[m]>> \o
             sort_keys(SubSeq(pairs, 1, m - 1) \o SubSeq(pairs, m + 1, Len(pairs)))

\* format!("{}={}&", key, value): the value as JSON text, a string in quotes.
pair_text(f) ==
    IF f.key \in {"limit", "orderId", "recvWindow", "timestamp"}  \* JSON numbers
    THEN <<Lit(f.key), Lit("="), Lit(f.val), Lit("&")>>
    ELSE <<Lit(f.key), Lit("="), Lit("\""), Lit(f.val), Lit("\""), Lit("&")>>

RECURSIVE sign_message(_)
sign_message(pairs) ==
    IF pairs = <<>> THEN <<>> ELSE pair_text(Head(pairs)) \o sign_message(Tail(pairs))

\* ws_api::signature
ws_signature(req, api_secret) ==
    signature(sign_message(sort_keys(serialized(req))), api_secret)

\* ---------------------------------------------------------------- messages
\* KeyedParams is rename_all = "camelCase"; SignedParams is not renamed.
KeyedParams(req, api_key) == serialized(req) \o <<Field("apiKey", api_key)>>
SignedParams(req, api_key, sig) ==
    serialized(req) \o <<Field("api_key", api_key), Field("signature", sig)>>

\* Mutant of FullRequest: the id is not copied into the message.
FullRequest_id_zero(id, method, params) == [id |-> 0, method |-> method, params |-> params]

\* FullPublicRequest / FullKeyedRequest / FullSignedRequest as JSON text.
FullRequest(id, method, params) == [id |-> id, method |-> method, params |-> params]

public_req_into_message(id, req) == FullRequest(id, ws_method(req), serialized(req))
keyed_req_into_message(id, req, api_key) ==
    FullRequest(id, ws_method(req), KeyedParams(req, api_key))
signed_req_into_message(id, req, api_key, api_secret) ==
    FullRequest(id, ws_method(req),
                SignedParams(req, api_key, ws_signature(req, api_secret)))

WsBuild(f, req, id, k, s, raw) ==
    [fn |-> f, req |-> req, id |-> id, api_key |-> k, api_secret |-> s, raw |-> raw]
NoWsBuild == WsBuild("none", NoReq, 0, <<>>, <<>>, FullRequest(0, "", <<>>))
\* --------------------------------------------------------------- responses
\* A member of a response message: absent, or an object with these fields.
Member(pr, fs) == [present |-> pr, fields |-> fs]

\* A response message: a JSON object with id, status, result and/or error,
\* and rateLimits.
WsText(id, st, res, err, rl) ==
    [json |-> TRUE, id |-> id, status |-> st, result |-> res, error |-> err,
     rateLimits |-> rl]
NoWsText == [json |-> FALSE, id |-> 0, status |-> 0, result |-> Member(FALSE, {}),
             error |-> Member(FALSE, {}), rateLimits |-> FALSE]

\* The result object the server sends for a method: the fields of the
\* method's response type, with or without the optional ones, with or
\* without a field the type does not declare.
ResultsOf(m) ==
    LET fs  ==
            CASE m = "depth"        -> OrderBookResponseFields
               [] m = "ticker.price" -> PriceTickerResponseFields
               [] m = "ticker.book"  -> WsBookTickerResponseFields
               [] m = "order.place"  -> NewOrderResponseFields
               [] m = "order.cancel" -> CancelOrderResponseFields
               [] OTHER              -> CreateListenKeyResponseFields
        opt == IF m \in {"order.place", "order.cancel"} THEN {"activatePrice", "priceRate"} ELSE {}
    IN  {Member(TRUE, fs), Member(TRUE, fs \cup opt), Member(TRUE, fs \cup {"priceMatch"})}

WsResponses(m, id) ==
    {WsText(id, st, res, err, rl) :
        st \in {200, 400},
        res \in ResultsOf(m) \cup {Member(FALSE, {}), Member(TRUE, {"foo"})},
        err \in {Member(FALSE, {}), Member(TRUE, ErrorEnvelopeFields), Member(TRUE, {"code"})},
        rl \in BOOLEAN}

\* ----------------------------------------------------------------- decoding
\* The variants of WsApiResult in declaration order, with the required
\* fields of each.
WsApiResult ==
    << [variant |-> "OrderBook",   required |-> OrderBookResponseFields],
       [variant |-> "PriceTicker", required |-> PriceTickerResponseFields],
       [variant |-> "BookTicker",  required |-> WsBookTickerResponseFields],
       [variant |-> "NewOrder",    required |-> NewOrderResponseFields],
       [variant |-> "CancelOrder", required |-> CancelOrderResponseFields] >>

\* Mutant of untagged: the last variant that matches is selected.
untagged_last_match(variants, fields) ==
    LET ok == {i \in 1..Len(variants) : variants[i].required \subseteq fields}
    IN  IF ok = {} THEN "none"
        ELSE variants[CHOOSE i \in ok : \A j \in ok : j <= i].variant

\* #[serde(untagged)]: the first variant that the object decodes as.
untagged(variants, fields) ==
    LET ok == {i \in 1..Len(variants) : variants[i].required \subseteq fields}
    IN  IF ok = {} THEN "none"
        ELSE variants[CHOOSE i \in ok : \A j \in ok : i <= j].variant

WsOk(v)  == [ok |-> TRUE, variant |-> v]
WsErr    == [ok |-> FALSE, variant |-> "BinanceResponseError"]
WsNoResult == [ok |-> FALSE, variant |-> "none"]

\* Mutant of deserialize_result_field: the error is tried before the result.
deserialize_result_field_error_first(text) ==
    IF text.error.present /\ ErrorEnvelopeFields \subseteq text.error.fields
    THEN WsErr
    ELSE IF text.result.present /\ untagged(WsApiResult, text.result.fields) # "none"
         THEN WsOk(untagged(WsApiResult, text.result.fields))
         ELSE WsNoResult

\* deserialize_result_field over RawResult<WsApiResult>: Ok { result } is
\* tried first, then Err { error }; WsNoResult when neither decodes.
deserialize_result_field(text) ==
    IF text.result.present /\ untagged(WsApiResult, text.result.fields) # "none"
    THEN WsOk(untagged(WsApiResult, text.result.fields))
    ELSE IF text.error.present /\ ErrorEnvelopeFields \subseteq text.error.fields
         THEN WsErr
         ELSE WsNoResult

WsApiEvent(id, st, res) == [tag |-> "Some", id |-> id, status |-> st, result |-> res]
NoWsEvent  == [tag |-> "none", id |-> 0, status |-> 0, result |-> WsNoResult]
WsPanic    == [tag |-> "Panic", id |-> 0, status |-> 0, result |-> WsNoResult]

\* from_str::<WsApiEvent<WsApiResult>>(&text) in BinanceWsApi::poll_next; a
\* text that does not decode makes poll_next panic.
from_str_ws_api_event(text) ==
    LET res == deserialize_result_field(text)
    IN  IF text.json /\ text.rateLimits /\ res # WsNoResult
        THEN WsApiEvent(text.id, text.status, res)
        ELSE WsPanic

\* ---------------------------------------------------------------- Init
Call(tier, req, k, s, resp) ==
    [tier |-> tier, req |-> req, api_key |-> k, api_secret |-> s, resp |-> resp]
NoCall == Call("none", NoReq, <<>>, <<>>, NoResp)

\* ================================================================= errors
\* The status codes the errors are built with.
ErrorStatuses == {101, 200, 302, 400, 404, 418, 429, 499, 500, 502, 503, 599, 600}

\* An error value: the type it belongs to, its variant, what a transparent
\* variant wraps, and the status it carries (0: none).
Error(ty, variant, inner, status) ==
    [type |-> ty, variant |-> variant, inner |-> inner, status |-> status]
NoError == Error("none", "none", "none", 0)

\* The values of the enum BinanceError.
BinanceErrors ==
    {Error("BinanceError", "InvalidApiKey", "none", 0)}
    \cup {Error("BinanceError", v, "none", st) :
              v \in {"StartWebsocketError", "BinanceResponse"}, st \in ErrorStatuses}
    \cup {Error("BinanceError", "WebsocketError", k, 0) :
              k \in {"ConnectionClosed", "AlreadyClosed", "Io", "Tls", "Protocol"}}
    \cup {Error("BinanceError", "WebsocketError", "Http", st) : st \in ErrorStatuses}
    \cup {Error("BinanceError", "RequestError", k, 0) : k \in {"Connect", "Timeout", "Decode"}}
    \cup {Error("BinanceError", "RequestError", "Status", st) : st \in ErrorStatuses}

\* The values of BinanceRequestError, StartWebsocketError and StartWsApiError.
StructErrors ==
    {Error("BinanceRequestError", "InvalidApiKey", "none", 0)}
    \cup {Error("BinanceRequestError", "BinanceResponse", "none", st) : st \in ErrorStatuses}
    \cup {Error(ty, "struct", "none", st) :
              ty \in {"StartWebsocketError", "StartWsApiError"}, st \in ErrorStatuses}

Errors == BinanceErrors \cup StructErrors

\* StatusCode::is_server_error
status_is_server_error(st) == 600 > st /\ st >= 500

\* Mutant of is_server_error: a BinanceResponse is a server error whenever
\* its status is not a success status.
is_server_error_any_failure(e) ==
    CASE e.type = "BinanceError" /\ e.variant = "InvalidApiKey" -> FALSE
      [] e.type = "BinanceError" /\ e.variant = "StartWebsocketError" ->
            status_is_server_error(e.status)
      [] e.type = "BinanceError" /\ e.variant = "BinanceResponse" -> ~is_success(e.status)
      [] e.type = "BinanceError" /\ e.variant = "WebsocketError" -> FALSE
      [] e.type = "BinanceError" /\ e.variant = "RequestError" ->
            e.inner = "Status" /\ status_is_server_error(e.status)  \* e.status().is_some_and
      [] e.type = "BinanceRequestError" /\ e.variant = "InvalidApiKey" -> FALSE
      [] e.type = "BinanceRequestError" /\ e.variant = "BinanceResponse" -> ~is_success(e.status)
      [] e.type = "StartWebsocketError" -> status_is_server_error(e.status)
      [] e.type = "StartWsApiError" -> status_is_server_error(e.status)

\* is_server_error of BinanceError, of BinanceRequestError, of
\* StartWebsocketError and of StartWsApiError.
is_server_error(e) ==
    CASE e.type = "BinanceError" /\ e.variant = "InvalidApiKey" -> FALSE
      [] e.type = "BinanceError" /\ e.variant = "StartWebsocketError" ->
            status_is_server_error(e.status)
      [] e.type = "BinanceError" /\ e.variant = "BinanceResponse" ->
            status_is_server_error(e.status)
      [] e.type = "BinanceError" /\ e.variant = "WebsocketError" -> FALSE
      [] e.type = "BinanceError" /\ e.variant = "RequestError" ->
            e.inner = "Status" /\ status_is_server_error(e.status)  \* e.status().is_some_and
      [] e.type = "BinanceRequestError" /\ e.variant = "InvalidApiKey" -> FALSE
      [] e.type = "BinanceRequestError" /\ e.variant = "BinanceResponse" ->
            status_is_server_error(e.status)
      [] e.type = "StartWebsocketError" -> status_is_server_error(e.status)
      [] e.type = "StartWsApiError" -> status_is_server_error(e.status)

\* ------------------------------------------------------------------- Init
InitErrIdle ==
    /\ error = NoError
    /\ verdict = <<>>

InitRestIdle ==
    /\ pc = "idle"
    /\ call = NoCall
    /\ wire = <<>>
    /\ result = NoResult

InitWsApiIdle ==
    /\ wspc = "idle"
    /\ wsreq = NoWsBuild
    /\ wssent = <<>>
    /\ wsresp = NoWsText
    /\ wsevent = NoWsEvent

\* No handle is connected yet; `scripts` are the scenarios the sockets play.
InitHandles(scripts) ==
    /\ conn = [h \in Handles |-> "unconnected"]
    /\ upgrades = [h \in Handles |-> <<>>]
    /\ connret = [h \in Handles |-> NoConnectCall]
    /\ arrived = [h \in Handles |-> <<>>]
    /\ nread = [h \in Handles |-> 0]
    /\ tstate = [h \in Handles |-> "Active"]
    /\ ended = [h \in Handles |-> FALSE]
    /\ task = [h \in Handles |-> "idle"]
    /\ wakerReg = [h \in Handles |-> FALSE]
    /\ yielded = [h \in Handles |-> <<>>]
    /\ script \in scripts
    /\ proc = "running"
    /\ InitRestIdle
    /\ InitWsApiIdle

InitStream ==
    /\ InitHandles({sc \in [Handles -> Scenarios] :
                       \A h \in Handles \ StreamHandles : sc[h] = <<>>})
    /\ InitErrIdle

\* ------------------------------------------------------------- actions
\* connect_stream: the upgrade succeeds, is refused by an HTTP response, or
\* fails otherwise (which panics).
connect_stream(h, topic, r) ==
    /\ proc = "running"
    /\ conn[h] = "unconnected"
    /\ LET url == stream_url(websocket_base_url, endpoint(topic))
       IN  /\ r \in connect_async(url)
           /\ Connect(h, "connect_stream", websocket_base_url, topic, url, r, "open")
    /\ UNCHANGED <<arrived, nread, tstate, ended, task, wakerReg, yielded, script, restVars, auxVars>>

\* connect_ws_api: the same over the client's ws_api_base_url.
connect_ws_api(h, base, r) ==
    /\ proc = "running"
    /\ conn[h] = "unconnected"
    /\ LET url == <<Lit(base)>>
       IN  /\ r \in connect_async(url)
           /\ Connect(h, "connect_ws_api", base, NoTopic, url, r, "ws_api")
    /\ UNCHANGED <<arrived, nread, tstate, ended, task, wakerReg, yielded, script, restVars, auxVars>>

\* The socket receives an item; a parked task whose waker the socket holds
\* is woken.
Receive(h, it) ==
    /\ arrived' = [arrived EXCEPT ![h] = Append(@, it)]
    /\ IF wakerReg[h]
       THEN /\ task' = [task EXCEPT ![h] = "runnable"]
            /\ wakerReg' = [wakerReg EXCEPT ![h] = FALSE]
       ELSE UNCHANGED <<task, wakerReg>>

Terminal(h) ==
    Len(arrived[h]) > 0 /\ arrived[h][Len(arrived[h])].kind \in {"Eof", "IoErr"}

Arrive(h, it) ==
    /\ proc = "running"
    /\ conn[h] = "open"
    /\ script[h] = <<>>
    /\ Len(arrived[h]) < MaxFrames
    /\ ~Terminal(h)
    /\ Receive(h, it)
    /\ UNCHANGED <<conn, upgrades, connret, nread, tstate, ended, yielded, script, proc, restVars, auxVars>>

ArriveScripted(h) ==
    /\ proc = "running"
    /\ conn[h] = "open"
    /\ script[h] # <<>>
    /\ Receive(h, Head(script[h]))
    /\ script' = [script EXCEPT ![h] = Tail(@)]
    /\ UNCHANGED <<conn, upgrades, connret, nread, tstate, ended, yielded, proc, restVars, auxVars>>

\* StreamExt::next: the caller starts a pull.
next(h) ==
    /\ proc = "running"
    /\ conn[h] = "open"
    /\ task[h] = "idle"
    /\ NoneCount(h) <= MaxPullsAfterEnd
    /\ task' = [task EXCEPT ![h] = "runnable"]
    /\ UNCHANGED <<conn, upgrades, connret, arrived, nread, tstate, ended, wakerReg, yielded, script, proc, restVars, auxVars>>

\* The executor polls the woken task: one run of BinanceWebsocket::poll_next.
poll_next(h) ==
    /\ proc = "running"
    /\ conn[h] = "open"
    /\ task[h] = "runnable"
    /\ LET r == stream_poll_next(h)
           w == poll_next_result(r)
       IN  /\ nread' = [nread EXCEPT ![h] = r.nread]
           /\ tstate' = [tstate EXCEPT ![h] = r.tstate]
           /\ ended' = [ended EXCEPT ![h] = r.ended]
           /\ wakerReg' = [wakerReg EXCEPT ![h] = (r.poll = "Pending")]
           /\ proc' = IF w.ret = "Panic" THEN "panicked" ELSE proc
           /\ task' = [task EXCEPT ![h] =
                          CASE w.ret = "Pending" -> IF w.wake THEN "runnable" ELSE "parked"
                            [] w.ret = "Panic"   -> "runnable"
                            [] OTHER             -> "idle"]
           /\ yielded' = [yielded EXCEPT ![h] =
                          CASE w.ret = "ReadySome" -> Append(@, w.event)
                            [] w.ret = "ReadyNone" -> Append(@, None)
                            [] OTHER               -> @]
    /\ UNCHANGED <<conn, upgrades, connret, arrived, script, restVars, auxVars>>

NextStream ==
    \/ \E h \in StreamHandles, r \in StreamConnectOutcomes :
            connect_stream(h, AggTradeStream("BTCUSDT"), r)
    \/ \E h \in StreamHandles, it \in Items : Arrive(h, it)
    \/ \E h \in StreamHandles : ArriveScripted(h)
    \/ \E h \in StreamHandles : next(h)
    \/ \E h \in StreamHandles : poll_next(h)

SpecStream == InitStream /\ [][NextStream]_vars

\* The executor polls every woken task.
SpecStreamFair == SpecStream /\ \A h \in StreamHandles : WF_vars(poll_next(h))

\* Two handles at once: both connect, each socket receives its own frames,
\* and the pulls on the two handles interleave freely.
InitTwoStreams == InitHandles([Handles -> TwoStreamScenarios]) /\ InitErrIdle

NextTwoStreams ==
    \/ \E h \in Handles : connect_stream(h, AggTradeStream("BTCUSDT"), Connected("Ok", NoHttp))
    \/ \E h \in Handles : ArriveScripted(h)
    \/ \E h \in Handles : next(h)
    \/ \E h \in Handles : poll_next(h)

SpecTwoStreams == InitTwoStreams /\ [][NextTwoStreams]_vars

\* Connecting alone: every topic, every outcome, both kinds of handle.
InitConnect == InitStream /\ script = [h \in Handles |-> <<>>]

NextConnect ==
    \/ \E h \in Handles, t \in Topics :
            \E r \in connect_async(stream_url(websocket_base_url, endpoint(t))) :
                connect_stream(h, t, r)
    \/ \E h \in Handles, b \in WsApiBaseUrls :
            \E r \in connect_async(<<Lit(b)>>) : connect_ws_api(h, b, r)

SpecConnect == InitConnect /\ [][NextConnect]_vars

\* ---------------------------------------------------------- WS API actions
\* A request is built: the message replaces the one built before.
Build(b) ==
    /\ proc = "running"
    /\ wspc \in {"idle", "done"}
    /\ wspc' = "built"
    /\ wsreq' = b
    /\ wssent' = <<>>
    /\ wsresp' = NoWsText
    /\ wsevent' = NoWsEvent
    /\ UNCHANGED <<streamVars, proc, restVars, errVars>>

WsApiPublicRequest_build(req, id) ==
    /\ req \in WsApiPublicRequests
    /\ Build(WsBuild("public", req, id, <<>>, <<>>, public_req_into_message(id, req)))

WsApiKeyedRequest_build(req, id, api_key) ==
    /\ req \in {UserDataStreamStartRequest}
    /\ Build(WsBuild("keyed", req, id, api_key, <<>>,
                     keyed_req_into_message(id, req, api_key)))

WsApiSignedRequest_build(req, id, api_key, api_secret) ==
    /\ req \in WsApiSignedRequests
    /\ Build(WsBuild("signed", req, id, api_key, api_secret,
                     signed_req_into_message(id, req, api_key, api_secret)))

\* Sink::start_send: the built message goes out as one text message.
start_send ==
    /\ proc = "running"
    /\ conn["h2"] = "ws_api"
    /\ wspc = "built"
    /\ wspc' = "sent"
    /\ wssent' = Append(wssent, wsreq.raw)
    /\ UNCHANGED <<streamVars, proc, restVars, errVars, wsreq, wsresp, wsevent>>

\* The server answers the request: its message carries the request's id.
WsApiRespond(text) ==
    /\ proc = "running"
    /\ wspc = "sent"
    /\ text \in WsResponses(wssent[1].method, wssent[1].id)
    /\ wspc' = "answered"
    /\ wsresp' = text
    /\ UNCHANGED <<streamVars, proc, restVars, errVars, wsreq, wssent, wsevent>>

\* BinanceWsApi::poll_next on the text message of the answer.
ws_api_poll_next ==
    /\ proc = "running"
    /\ wspc = "answered"
    /\ wspc' = "done"
    /\ wsevent' = from_str_ws_api_event(wsresp)
    /\ proc' = IF wsevent' = WsPanic THEN "panicked" ELSE proc
    /\ UNCHANGED <<streamVars, restVars, errVars, wsreq, wssent, wsresp>>

NextWsApi ==
    \/ connect_ws_api("h2", "wss://ws-fapi.binance.com/ws-fapi/v1",
                      Connected("Ok", NoHttp))
    \/ \E r \in WsApiPublicRequests, i \in WsIds : WsApiPublicRequest_build(r, i)
    \/ \E r \in {UserDataStreamStartRequest}, i \in WsIds, k \in WsApiKeys :
            WsApiKeyedRequest_build(r, i, k)
    \/ \E r \in WsApiSignedRequests, i \in WsIds, k \in WsApiKeys, sc \in ApiSecrets :
            WsApiSignedRequest_build(r, i, k, sc)
    \/ start_send
    \/ \E i \in WsIds, m \in {ws_method(r) : r \in WsApiPublicRequests \cup
                                  {UserDataStreamStartRequest} \cup WsApiSignedRequests} :
            \E t \in WsResponses(m, i) : WsApiRespond(t)
    \/ ws_api_poll_next

SpecWsApi == InitConnect /\ [][NextWsApi]_vars

\* ------------------------------------------------------------ REST actions
InitRest ==
    /\ conn = [h \in Handles |-> "unconnected"]
    /\ upgrades = [h \in Handles |-> <<>>]
    /\ connret = [h \in Handles |-> NoConnectCall]
    /\ arrived = [h \in Handles |-> <<>>]
    /\ nread = [h \in Handles |-> 0]
    /\ tstate = [h \in Handles |-> "Active"]
    /\ ended = [h \in Handles |-> FALSE]
    /\ task = [h \in Handles |-> "idle"]
    /\ wakerReg = [h \in Handles |-> FALSE]
    /\ yielded = [h \in Handles |-> <<>>]
    /\ script = [h \in Handles |-> <<>>]
    /\ proc = "running"
    /\ InitRestIdle
    /\ InitWsApiIdle
    /\ InitErrIdle

\* The call is made; `hdrs` says whether the headers could be built and what
\* they are; the request is handed to the transport when they could.
Dispatch(c, params, hdrs) ==
    /\ call' = c
    /\ IF hdrs.ok
       THEN /\ wire' = send(Http(c.tier, c.req,
                                 format_url(rest_base_url, c.req.endpoint, params),
                                 hdrs.headers))
            /\ pc' = "sending"
            /\ result' = NoResult
       ELSE /\ wire' = <<>>
            /\ pc' = "done"
            /\ result' = Result("InvalidApiKey", 0, {}, {})
    /\ UNCHANGED <<auxVars, streamVars, proc>>

CanCall == proc = "running" /\ pc # "sending"

request(req) ==
    /\ CanCall
    /\ Dispatch(Call("Public", req, <<>>, <<>>, NoResp), to_string(req),
                [ok |-> TRUE, headers |-> public_headers])

keyed_request(req, api_key) ==
    /\ CanCall
    /\ Dispatch(Call("KeyOnly", req, api_key, <<>>, NoResp), to_string(req),
                [ok |-> HeaderValue_from_str(api_key),
                 headers |-> keyed_headers(api_key)])

signed_request(req, api_key, api_secret) ==
    /\ CanCall
    /\ Dispatch(Call("Signed", req, api_key, api_secret, NoResp),
                signed_params(req, api_secret),
                [ok |-> HeaderValue_from_str(api_key),
                 headers |-> keyed_headers(api_key)])

\* send().await fails: the unwrap panics.
SendFails ==
    /\ proc = "running"
    /\ pc = "sending"
    /\ proc' = "panicked"
    /\ pc' = "done"
    /\ result' = Result("Panic", 0, {}, {})
    /\ UNCHANGED <<auxVars, streamVars, call, wire>>

\* send().await returns a response: handle_response runs on it.
Respond(status, headers, body) ==
    /\ proc = "running"
    /\ pc = "sending"
    /\ LET resp == [status |-> status, headers |-> headers, body |-> body]
           res  == handle_response(call.req.response, resp)
       IN  /\ call' = [call EXCEPT !.resp = resp]
           /\ result' = res
           /\ proc' = IF res.kind = "Panic" THEN "panicked" ELSE proc
    /\ pc' = "done"
    /\ UNCHANGED <<auxVars, streamVars, wire>>

NextRest ==
    \/ \E r \in PublicRequests : request(r)
    \/ \E r \in KeyedRequests, k \in ApiKeys : keyed_request(r, k)
    \/ \E r \in PublicRequests, k \in ApiKeys, s \in ApiSecrets : signed_request(r, k, s)
    \/ SendFails
    \/ \E st \in StatusCodes, hd \in RespHeaderSets, b \in Bodies : Respond(st, hd, b)

SpecRest == InitRest /\ [][NextRest]_vars

\* ---------------------------------------------------------- error actions
\* Any error value may be the one in hand.
InitErrors ==
    /\ InitHandles({[h \in Handles |-> <<>>]})
    /\ error \in Errors
    /\ verdict = <<>>

\* The caller asks the error whether it is a server error.
is_server_error_call ==
    /\ error # NoError
    /\ verdict = <<>>
    /\ verdict' = <<is_server_error(error)>>
    /\ UNCHANGED <<streamVars, proc, restVars, wsVars, error>>

NextErrors == is_server_error_call

SpecErrors == InitErrors /\ [][NextErrors]_vars

\* ===================================================== stream properties
ReadSoFar(h) == SubSeq(arrived[h], 1, nread[h])

DecodableText(it) == it.kind = "Text" /\ from_str_event(it.payload).ok

\* Valid text frames and control frames, with a Close frame at most at the end.
CleanRun(s) ==
    \A i \in 1..Len(s) :
        \/ DecodableText(s[i])
        \/ s[i].kind \in ControlKinds
        \/ s[i].kind = "Close" /\ i = Len(s)

\* What the pulls are to return for the frames s: one event per text frame,
\* nothing for a control frame, the end of the sequence for Close.
RECURSIVE Expected(_)
Expected(s) ==
    IF s = <<>> THEN <<>>
    ELSE LET it == Head(s)
         IN  (CASE it.kind = "Text"  -> <<Some(from_str_event(it.payload).event)>>
                [] it.kind = "Close" -> <<None>>
                [] OTHER             -> <<>>) \o Expected(Tail(s))

\* C1: on a socket that received only valid text frames and binary/ping/pong
\* frames, closed by a Close frame, the pulls return exactly the decoded
\* events of the text frames read so far, in arrival order, then the end of
\* the sequence, and the process has not aborted.
C1_FifoDelivery ==
    \A h \in StreamHandles :
        (conn[h] = "open" /\ CleanRun(arrived[h])) =>
            LET exp == Expected(ReadSoFar(h))
                got == yielded[h]
            IN  /\ proc = "running"
                /\ Len(got) >= Len(exp)
                /\ SubSeq(got, 1, Len(exp)) = exp
                /\ \A i \in (Len(exp) + 1)..Len(got) : got[i] = None
                /\ Len(got) > Len(exp) =>
                        (nread[h] > 0 /\ arrived[h][nread[h]].kind = "Close")

\* The fixture [Ping, Text, Pong, Text, Close] was played and read to its end.
C1_Witness ==
    /\ arrived["h1"] = FrameFilteringFixture
    /\ yielded["h1"] = <<Some([id |-> 1]), Some([id |-> 2]), None>>
    /\ proc = "running"

\* C3: a text frame that does not decode into the event type is returned to
\* the caller of the pull as a decode error value, and the process goes on.
C3_DecodeErrorSurfaced ==
    \A h \in StreamHandles :
        (nread[h] > 0 /\ arrived[h][nread[h]].kind = "Text"
                      /\ ~DecodableText(arrived[h][nread[h]])) =>
            /\ proc = "running"
            /\ Len(yielded[h]) > 0
            /\ yielded[h][Len(yielded[h])].tag = "DecodeError"

\* C9: after a pull returned the end of the sequence, no later pull on the
\* same handle returns an event, and the connection is closed for good: the
\* peer's Close was read or the socket is fused.
C9_ClosedIsTerminal ==
    \A h \in StreamHandles :
        /\ \A i \in 1..Len(yielded[h]) : \A j \in 1..Len(yielded[h]) :
               (i < j /\ yielded[h][i] = None) => yielded[h][j] = None
        /\ NoneCount(h) > 0 => (ended[h] \/ tstate[h] = "ClosedByPeer")

\* A valid text frame reached the socket after the Close frame, and the pull
\* made after the end of the sequence read it.
C9_Witness ==
    /\ Len(arrived["h1"]) >= 2
    /\ arrived["h1"][1].kind = "Close"
    /\ DecodableText(arrived["h1"][2])
    /\ nread["h1"] = 2
    /\ yielded["h1"] = <<None, None>>

\* The frames not yet read are a run of control frames followed by a valid
\* text frame, and a pull is in progress.
SkipThenText(h) ==
    /\ proc = "running"
    /\ task[h] # "idle"
    /\ ~ended[h]
    /\ tstate[h] = "Active"
    /\ \E i \in (nread[h] + 1)..Len(arrived[h]) :
            /\ DecodableText(arrived[h][i])
            /\ \A j \in (nread[h] + 1)..(i - 1) : arrived[h][j].kind \in ControlKinds

\* C10: a poll that reads a Binary, Ping, Pong or raw Frame message returns
\* nothing to the caller, does not end the sequence and leaves the task
\* woken; under fair scheduling the text frame that follows a run of such
\* frames is delivered by the pull in progress: the run does not stay unread,
\* and it stops being unread only by the pull returning the frame's event.
C10_ControlFramesSkipped ==
    /\ [][\A h \in StreamHandles :
            (nread'[h] = nread[h] + 1 /\ arrived[h][nread'[h]].kind \in ControlKinds
                /\ tstate[h] = "Active") =>
                (yielded'[h] = yielded[h] /\ task'[h] = "runnable" /\ ~ended'[h])]_vars
    /\ [][\A h \in StreamHandles :
            (SkipThenText(h) /\ ~SkipThenText(h)') =>
                /\ DecodableText(arrived[h][nread'[h]])
                /\ yielded'[h] = Append(yielded[h],
                        Some(from_str_event(arrived[h][nread'[h]].payload).event))]_vars
    /\ \A h \in StreamHandles : SkipThenText(h) ~> ~SkipThenText(h)

\* A text frame that followed a Ping was delivered.
C10_Witness ==
    /\ Len(arrived["h1"]) = 2
    /\ arrived["h1"][1].kind = "Ping"
    /\ DecodableText(arrived["h1"][2])
    /\ Len(yielded["h1"]) = 1
    /\ yielded["h1"][1].tag = "Some"

\* C11: when the socket reports an error to a pull, that pull ends the
\* sequence and hands the error to the caller with the termination.
C11_ErrorReachesCaller ==
    \A h \in StreamHandles :
        (nread[h] > 0 /\ arrived[h][nread[h]].kind = "IoErr") =>
            /\ Len(yielded[h]) > 0
            /\ yielded[h][Len(yielded[h])].tag = "EndedWithError"

\* What a handle yields for the items its own socket handed it, in order:
\* an event per text frame, nothing for a control frame, the end of the
\* sequence for a Close, for the end of the TCP stream, for an error and
\* for any frame read after the Close.
RECURSIVE OwnYield(_, _)
OwnYield(items, closed) ==
    IF items = <<>> THEN <<>>
    ELSE LET it == Head(items)
         IN  CASE closed \/ it.kind \in {"Eof", "IoErr"} -> <<None>>
               [] it.kind = "Close" -> <<None>> \o OwnYield(Tail(items), TRUE)
               [] it.kind = "Text" ->
                    <<Some(from_str_event(it.payload).event)>> \o OwnYield(Tail(items), closed)
               [] OTHER -> OwnYield(Tail(items), closed)

HandleState(h) == <<nread[h], tstate[h], ended[h], yielded[h], task[h]>>

\* C21: with two handles open at once and their pulls interleaved, what a
\* handle yields is determined by the items its own socket handed it (plus
\* end-of-sequence for pulls made after its own socket ended), and a step on
\* one handle leaves the other handle's state alone.
C21_HandlesIndependent ==
    /\ [](\A h \in Handles :
            LET own == OwnYield(ReadSoFar(h), FALSE)
                got == yielded[h]
            IN  /\ Len(got) >= Len(own)
                /\ SubSeq(got, 1, Len(own)) = own
                /\ \A i \in (Len(own) + 1)..Len(got) : got[i] = None /\ ended[h])
    /\ [][\A h \in Handles : \A g \in Handles \ {h} :
            HandleState(h)' # HandleState(h) => HandleState(g)' = HandleState(g)]_vars

\* One handle read its Close and ended, the other went on and delivered
\* both its events before its socket failed.
C21_Witness ==
    /\ conn = [h \in Handles |-> "open"]
    /\ yielded["h1"] = <<Some([id |-> 1]), None>>
    /\ tstate["h1"] = "ClosedByPeer"
    /\ yielded["h2"] = <<Some([id |-> 1]), Some([id |-> 2]), None>>
    /\ arrived["h2"][3] = Eof

\* ===================================================== connect properties
Attempt(h) == upgrades[h][1]

\* The text carries the bytes: the same length, and every UTF-8 byte in place.
CarriesBody(text, body) ==
    LET bytes == IF body.some THEN body.bytes ELSE <<>>
    IN  /\ Len(text) = Len(bytes)
        /\ \A i \in 1..Len(bytes) : bytes[i] # "0xFF" => text[i] = bytes[i]

\* C12: an upgrade refused by an HTTP response makes connect_stream and
\* connect_ws_api return the handshake error with that response's status,
\* headers and body, and neither a handle nor another failure.
C12_RefusalIsHandshakeError ==
    \A h \in Handles :
        (upgrades[h] # <<>> /\ Attempt(h).result.kind = "Http") =>
            /\ connret[h].fn \in {"connect_stream", "connect_ws_api"}
            /\ connret[h].ret.kind = "StartError"
            /\ connret[h].ret.status = Attempt(h).result.resp.status
            /\ connret[h].ret.headers = Attempt(h).result.resp.headers
            /\ CarriesBody(connret[h].ret.body, Attempt(h).result.resp.body)
            /\ conn[h] = "rejected"

C12_Witness ==
    /\ connret["h1"].fn = "connect_stream"
    /\ connret["h2"].fn = "connect_ws_api"
    /\ \A h \in Handles :
          /\ upgrades[h] # <<>>
          /\ Attempt(h).result.kind = "Http"
          /\ Attempt(h).result.resp.status = 429
          /\ Attempt(h).result.resp.headers = {"retry-after"}
          /\ Attempt(h).result.resp.body = HttpBody(TRUE, <<"{", "}">>)
          /\ connret[h].ret.body = <<"{", "}">>

\* C13: a connect that fails otherwise than by an HTTP refusal returns a
\* transport error value, and the process keeps running.
C13_OtherFailureIsTransportError ==
    \A h \in Handles :
        (upgrades[h] # <<>> /\ Attempt(h).result.kind \in {"Io", "Tls", "Url"}) =>
            /\ proc = "running"
            /\ connret[h].ret.kind = "TransportError"

\* C20: a connect_stream call makes one upgrade attempt, to the websocket
\* base URL followed by the topic's endpoint, and returns a handle exactly
\* when that attempt succeeded.
C20_OneUpgradeAttempt ==
    \A h \in Handles :
        connret[h].fn = "connect_stream" =>
            /\ Len(upgrades[h]) = 1
            /\ Attempt(h).url = <<Lit(websocket_base_url)>> \o endpoint(connret[h].topic)
            /\ (connret[h].ret.kind = "Handle") <=> (Attempt(h).result.kind = "Ok")
            /\ (conn[h] = "open") <=> (Attempt(h).result.kind = "Ok")

C20_Witness ==
    /\ connret["h1"] = ConnectCall("connect_stream", websocket_base_url,
                                   AggTradeStream("BTCUSDT"),
                                   ConnectReturn("Handle", 0, {}, <<>>))
    /\ upgrades["h1"] =
          << [url |-> <<Lit("wss://fstream.binance.com"), Lit("/ws/"),
                        Lit("btcusdt"), Lit("@aggTrade")>>,
              result |-> Connected("Ok", NoHttp)] >>
    /\ connret["h2"].fn = "connect_stream"
    /\ connret["h2"].ret.kind = "StartError"

\* ======================================================== REST properties
\* C2: the string a signed request's signature was computed over is the
\* parameter string that is transmitted (query string, then body), without
\* the appended signature parameter.
C2_SignedIsTransmitted ==
    \A i \in 1..Len(wire) :
        wire[i].tier = "Signed" =>
            LET q == QueryOf(wire[i].url)
                n == Len(q)
            IN  /\ n >= 2
                /\ q[n - 1] = Lit("&signature=")
                /\ q[n] = signature(SubSeq(q, 1, n - 2) \o wire[i].body, call.api_secret)

\* A signed order-book request with an encoded symbol and a limit is on the wire.
C2_Witness ==
    /\ pc = "sending"
    /\ Len(wire) = 1
    /\ wire[1].tier = "Signed"
    /\ call.req = OrderBookRequest("BTC/USDT", Field("limit", "5"))
    /\ call.api_secret = <<"s", "1">>

\* C4: a response whose body decodes as the error envelope (code, msg) is
\* returned as a structured API error with the code and message, the HTTP
\* status and the headers, whatever the HTTP status is.
C4_ErrorEnvelopeIsApiError ==
    (pc = "done" /\ call.resp.body.readable
                 /\ from_str(ErrorEnvelopeFields, call.resp.body)) =>
        /\ result.kind = "BinanceResponse"
        /\ result.content = ErrorEnvelopeFields
        /\ result.status = call.resp.status
        /\ result.headers = call.resp.headers

\* C5: a response body that parses neither as the expected response type nor
\* as the error envelope is returned as an unparseable-response error, and
\* the process goes on.
C5_UnparseableIsError ==
    (pc = "done" /\ call.resp.body.readable
                 /\ ~from_str(call.req.response, call.resp.body)
                 /\ ~from_str(ErrorEnvelopeFields, call.resp.body)) =>
        /\ proc = "running"
        /\ result.kind = "Unparseable"

HasApiKeyHeader(http) == \E hd \in http.headers : hd.name = "x-mbx-apikey"

\* C6: a request handed to the transport carries the x-mbx-apikey header,
\* with the caller's key as its value, if and only if it was made by
\* keyed_request or signed_request.
C6_ApiKeyHeaderIffKeyed ==
    \A i \in 1..Len(wire) :
        /\ HasApiKeyHeader(wire[i]) <=> wire[i].tier \in {"KeyOnly", "Signed"}
        /\ \A hd \in wire[i].headers :
               hd.name = "x-mbx-apikey" => hd.value = call.api_key

\* A signed request and its key header are on the wire.
C6_Witness ==
    /\ Len(wire) = 1
    /\ wire[1].tier = "Signed"
    /\ Header("x-mbx-apikey", <<"k", "1">>) \in wire[1].headers

\* C7: a keyed or signed call made with an empty key, or with a key that is
\* no header value, fails with InvalidApiKey and nothing is sent.
C7_MissingKeyFailsBeforeSend ==
    (call.tier \in {"KeyOnly", "Signed"}
        /\ (call.api_key = <<>> \/ ~HeaderValue_from_str(call.api_key))) =>
        /\ wire = <<>>
        /\ pc = "done"
        /\ result.kind = "InvalidApiKey"

\* C8: a signed call made with an empty secret fails with MissingApiSecret
\* and nothing is sent.
C8_MissingSecretFails ==
    (call.tier = "Signed" /\ call.api_secret = <<>>) =>
        /\ wire = <<>>
        /\ pc = "done"
        /\ result.kind = "MissingApiSecret"

\* The parameter string of the call in progress.
CallParams == to_string(call.req)

IsPrefix(a, b) == Len(a) <= Len(b) /\ SubSeq(b, 1, Len(a)) = a

HasParam(q, k) == \E j \in 1..Len(q) : q[j] = Lit(k)

\* C14: a signed request's signed and transmitted parameters contain a
\* timestamp and a recvWindow, the latter 5000 when the caller gave none.
C14_SignedHasTimestampAndWindow ==
    \A i \in 1..Len(wire) :
        wire[i].tier = "Signed" =>
            LET q == QueryOf(wire[i].url)
            IN  /\ HasParam(q, "timestamp") /\ HasParam(q, "recvWindow")
                /\ HasParam(q[Len(q)].msg, "timestamp")
                /\ HasParam(q[Len(q)].msg, "recvWindow")

IsSignature(t) == t.lit = "hmac-sha256"

\* C15: in a signed request the signature occurs once, as the last
\* parameter of the query string, and not in the body.
C15_SignatureLastInQuery ==
    \A i \in 1..Len(wire) :
        wire[i].tier = "Signed" =>
            LET q == QueryOf(wire[i].url)
                n == Len(q)
            IN  /\ n >= 2
                /\ IsSignature(q[n])
                /\ q[n - 1] = Lit("&signature=")
                /\ \A j \in 1..(n - 1) : ~IsSignature(q[j])
                /\ \A j \in 1..(n - 2) :
                      q[j] \notin {Lit("&signature="), Lit("signature="), Lit("signature")}
                /\ SubSeq(q, 1, n - 2) = CallParams
                /\ \A j \in 1..Len(wire[i].body) :
                      ~IsSignature(wire[i].body[j]) /\ wire[i].body[j] # Lit("&signature=")

C15_Witness ==
    /\ pc = "done"
    /\ Len(wire) = 1
    /\ wire[1].tier = "Signed"
    /\ call.req = OrderBookRequest("BTCUSDT", Field("limit", "5"))
    /\ Len(QueryOf(wire[1].url)) = 9
    /\ result.kind = "Ok"

\* C16: a dispatch call hands at most one request to the transport,
\* whatever its outcome, and exactly one unless the headers could not be
\* built.
C16_AtMostOneSend ==
    /\ Len(wire) <= 1
    /\ pc = "sending" => Len(wire) = 1
    /\ (pc = "done" /\ result.kind # "InvalidApiKey") => Len(wire) = 1

C16_Witness ==
    /\ pc = "done"
    /\ call.tier = "KeyOnly"
    /\ call.resp.status = 429
    /\ result.kind = "BinanceResponse"
    /\ Len(wire) = 1

\* C17: a response with a success status and a body that decodes as the
\* request's response type makes the call return Ok with the typed content
\* and the response's status and headers.
C17_SuccessIsOk ==
    (/\ pc = "done"
     /\ call.resp # NoResp
     /\ is_success(call.resp.status)
     /\ call.resp.body.readable
     /\ from_str(call.req.response, call.resp.body)) =>
        /\ result = Result("Ok", call.resp.status, call.resp.headers, call.req.response)
        /\ proc = "running"

C17_Witness ==
    /\ pc = "done"
    /\ call.req = PriceTickerRequest("BTCUSDT")
    /\ call.resp = [status |-> 200, headers |-> {"retry-after"},
                    body |-> ObjectBody(PriceTickerResponseFields)]
    /\ result = Result("Ok", 200, {"retry-after"}, PriceTickerResponseFields)

\* C18: a send that fails at the transport makes the call return a
\* transport error value, and the process keeps running.
C18_SendFailureIsTransportError ==
    (pc = "done" /\ Len(wire) = 1 /\ call.resp = NoResp) =>
        /\ proc = "running"
        /\ result.kind = "TransportError"

Sent == wssent[1]

\* The variant of WsApiResult that belongs to a method.
VariantOf(m) ==
    CASE m = "depth"        -> "OrderBook"
      [] m = "ticker.price" -> "PriceTicker"
      [] m = "ticker.book"  -> "BookTicker"
      [] m = "order.place"  -> "NewOrder"
      [] m = "order.cancel" -> "CancelOrder"
      [] OTHER              -> "none"

\* C22: a request built with id i goes out as one message whose id is i, and
\* the event decoded from the answer to it has the id i and the answer's
\* status.
C22_IdRoundTrip ==
    /\ wspc \in {"sent", "answered", "done"} =>
          /\ Len(wssent) = 1
          /\ Sent.id = wsreq.id
          /\ Sent.method = ws_method(wsreq.req)
    /\ (wspc = "done" /\ wsevent.tag = "Some") =>
          /\ wsevent.id = wsreq.id
          /\ wsevent.status = wsresp.status

C22_Witness ==
    /\ wspc = "done"
    /\ wsreq.fn = "public"
    /\ wsreq.req = OrderBookRequest("BTCUSDT", Field("limit", "5"))
    /\ wsreq.id = 7
    /\ Sent = [id |-> 7, method |-> "depth",
               params |-> <<Field("symbol", "BTCUSDT"), Field("limit", "5")>>]
    /\ wsevent = WsApiEvent(7, 200, WsOk("OrderBook"))

\* C23: the result of a method's answer, carrying the fields of the method's
\* response type, decodes to the variant of WsApiResult that belongs to the
\* method.
C23_VariantOfMethod ==
    (/\ wspc = "done"
     /\ VariantOf(Sent.method) # "none"
     /\ wsresp.rateLimits
     /\ wsresp.result \in ResultsOf(Sent.method)) =>
        /\ wsevent.tag = "Some"
        /\ wsevent.result = WsOk(VariantOf(Sent.method))

C23_Witness ==
    /\ wspc = "done"
    /\ Sent.method = "order.place"
    /\ wsresp.status = 200
    /\ wsresp.result = Member(TRUE, NewOrderResponseFields \cup {"activatePrice", "priceRate"})
    /\ ~wsresp.error.present
    /\ wsevent.result = WsOk("NewOrder")

ParamOf(msg, k) == msg.params[CHOOSE j \in 1..Len(msg.params) : msg.params[j].key = k]

\* C26: the string signed for a signed WS API request names every parameter
\* of the message's params except the signature, the API key included.
C26_SignedCoversTransmitted ==
    (wspc = "built" /\ wsreq.fn = "signed") =>
        LET ps     == wsreq.raw.params
            signed == ParamOf(wsreq.raw, "signature").val.msg
        IN  \A j \in 1..Len(ps) :
                ps[j].key # "signature" =>
                    \E i \in 1..Len(signed) : signed[i] = Lit(ps[j].key)

\* The keys of a signed string, in the order they occur in it.
RECURSIVE KeysIn(_)
KeysIn(msg) ==
    IF Len(msg) < 2 THEN <<>>
    ELSE IF msg[2] = Lit("=") THEN <<msg[1].lit>> \o KeysIn(Tail(Tail(msg)))
         ELSE KeysIn(Tail(msg))

FieldOrders(n) == {f \in [1..n -> 1..n] : \A i, j \in 1..n : f[i] = f[j] => i = j}

\* C27: the signed string lists the request's serialized pairs in ascending
\* key order, and a request with the same fields declared in any other order
\* gets the same signature.
C27_SignatureIgnoresFieldOrder ==
    (wspc = "built" /\ wsreq.fn = "signed") =>
        LET sig  == ParamOf(wsreq.raw, "signature").val
            keys == KeysIn(sig.msg)
            fs   == wsreq.req.fields
        IN  /\ Len(keys) = Len(serialized(wsreq.req))
            /\ \A i \in 1..Len(keys) : \A j \in 1..Len(keys) :
                  i < j => KeyRank(keys[i]) < KeyRank(keys[j])
            /\ \A f \in FieldOrders(Len(fs)) :
                  ws_signature([wsreq.req EXCEPT !.fields = [i \in 1..Len(fs) |-> fs[f[i]]]],
                               wsreq.api_secret) = sig

C27_Witness ==
    /\ wspc = "built"
    /\ wsreq.fn = "signed"
    /\ wsreq.req = NewOrderRequest("BUY", Field("recvWindow", "6000"), "1700000000000")
    /\ KeysIn(ParamOf(wsreq.raw, "signature").val.msg) =
          <<"recvWindow", "side", "symbol", "timestamp", "type">>

\* C28: a message built by the keyed build or by the signed build carries
\* the API key in the params field apiKey.
C28_ApiKeyFieldName ==
    (wspc = "built" /\ wsreq.fn \in {"keyed", "signed"}) =>
        \E j \in 1..Len(wsreq.raw.params) :
            wsreq.raw.params[j] = Field("apiKey", wsreq.api_key)

Decodable(m) == m.present /\ \E i \in 1..Len(WsApiResult) : WsApiResult[i].required \subseteq m.fields

\* C29: an answer with a result that decodes gives an event with Ok(result);
\* an answer with an error (code and msg) and no result gives Err; an answer
\* with an error gives Ok only when a result that decodes is there as well.
C29_ResultOrError ==
    (wspc = "done" /\ wsresp.json /\ wsresp.rateLimits) =>
        /\ Decodable(wsresp.result) =>
              (wsevent.tag = "Some" /\ wsevent.result.ok)
        /\ (wsresp.error = Member(TRUE, ErrorEnvelopeFields) /\ ~wsresp.result.present) =>
              (wsevent.tag = "Some" /\ wsevent.result = WsErr)
        /\ (wsresp.error.present /\ wsevent.tag = "Some" /\ wsevent.result.ok) =>
              Decodable(wsresp.result)

C29_Witness ==
    /\ wspc = "done"
    /\ wsresp.status = 400
    /\ wsresp.error = Member(TRUE, ErrorEnvelopeFields)
    /\ wsresp.result = Member(TRUE, PriceTickerResponseFields)
    /\ wsevent = WsApiEvent(wsreq.id, 400, WsOk("PriceTicker"))

\* C25: a call returns Ok only for an answer with a success status; for an
\* answer with any other status it returns the BinanceResponse error with the
\* answer's status and headers, with the decoded error content or, when the
\* body cannot be read, with no content.
C25_NonSuccessIsError ==
    (pc = "done" /\ call.resp # NoResp) =>
        /\ result.kind = "Ok" => is_success(call.resp.status)
        /\ ~is_success(call.resp.status) =>
              /\ result.kind = "BinanceResponse"
              /\ result.status = call.resp.status
              /\ result.headers = call.resp.headers
              /\ result.content = IF call.resp.body.readable THEN ErrorEnvelopeFields ELSE {}

\* ======================================================= error properties
\* C30: is_server_error answers true exactly for an error that carries a
\* status from 500 to 599 and is not a WebSocket transport error; it answers
\* false for InvalidApiKey, for every WebSocket transport error, for a request
\* error without a status and for every status outside 500..599.
C30_ServerErrorIff5xx ==
    verdict # <<>> =>
        /\ verdict[1] <=> (/\ error.variant # "WebsocketError"
                           /\ error.status \in 500..599)
        /\ error.variant \in {"InvalidApiKey", "WebsocketError"} => ~verdict[1]
        /\ (error.variant = "RequestError" /\ error.inner # "Status") => ~verdict[1]

C30_Witness ==
    /\ error = Error("BinanceRequestError", "BinanceResponse", "none", 503)
    /\ verdict = <<TRUE>>
====
